---- MODULE Spec2Model ----
\* Faculty allocation tool (src/app.py): schema resolution, merit sort,
\* preference tally and per-round allocation, modelled as a state machine.
EXTENDS Integers, Sequences, FiniteSets, TLC

VARIABLES uploaded, df, calls, direct, pc, cgpa_col, faculty_cols, df_sorted,
          pref_counts, allocated_rows, start, pos, available, result, first

vars == <<uploaded, df, calls, direct, pc, cgpa_col, faculty_cols, df_sorted,
          pref_counts, allocated_rows, start, pos, available, result, first>>

\* ---------------------------------------------------------------- bounds
MaxStudents == 3
MaxFac == 2
MaxMerit == 2

\* ------------------------------------------------------- headers (strings)
\* A header is the sequence of its characters, so that strip() and lower()
\* are computed and not looked up.
Digits == <<"1", "2", "3", "4", "5", "6", "7", "8", "9">>
H_Roll == <<"R", "o", "l", "l">>
H_Name == <<"N", "a", "m", "e">>
H_Email == <<"E", "m", "a", "i", "l">>
H_CGPA == <<"C", "G", "P", "A">>
H_cgpa_padded == <<" ", "c", "g", "p", "a", " ">>
H_Cgpa == <<"C", "g", "p", "a">>
H_GPA == <<"G", "P", "A">>
H_C_GPA == <<"C", " ", "G", "P", "A">>
H_orig_index == <<"_", "o", "r", "i", "g", "_", "i", "n", "d", "e", "x">>
Fac(i) == <<"F", Digits[i]>>

\* Python None (no header found) and the empty string "".
None == <<"None">>
Empty == <<>>

\* str.lower() on the characters that occur in headers.
LowerChar(c) ==
    CASE c = "C" -> "c"
      [] c = "G" -> "g"
      [] c = "P" -> "p"
      [] c = "A" -> "a"
      [] c = "R" -> "r"
      [] c = "N" -> "n"
      [] c = "E" -> "e"
      [] c = "F" -> "f"
      [] OTHER -> c

Lower(s) == [i \in 1..Len(s) |-> LowerChar(s[i])]

RECURSIVE LStrip(_)
LStrip(s) == IF s # <<>> /\ Head(s) = " " THEN LStrip(Tail(s)) ELSE s

RECURSIVE RStrip(_)
RStrip(s) ==
    IF s # <<>> /\ s[Len(s)] = " " THEN RStrip(SubSeq(s, 1, Len(s) - 1)) ELSE s

\* str.strip()
Strip(s) == RStrip(LStrip(s))

\* ------------------------------------------------------------------ cells
\* A numeric cell holds v/2 (so that 1.5 is v = 3); a missing cell is NaN; a
\* text cell is a string that is no number.
NaN == [kind |-> "nan", v |-> 0]
Text == [kind |-> "str", v |-> 0]
Num(h) == [kind |-> "num", v |-> h]
Whole(i) == Num(2 * i)
EmptyCell == [kind |-> "empty", v |-> 0]

\* int(x) inside try/except: truncation toward zero for a number, an
\* exception (ok = FALSE) for NaN and for text.
PyInt(c) ==
    IF c.kind = "num" THEN [ok |-> TRUE, val |-> c.v \div 2]
    ELSE [ok |-> FALSE, val |-> 0]

\* pd.to_numeric(errors='coerce') on one cell.
ToNumeric(c) == IF c.kind = "num" THEN c ELSE NaN

\* ----------------------------------------------------------------- tables
\* A table is its column labels and its rows (cells aligned with the labels).
NoTable == [cols |-> <<>>, rows |-> <<>>]

RECURSIVE IndexFrom(_, _, _)
IndexFrom(cols, label, i) ==
    IF i > Len(cols) THEN 0
    ELSE IF cols[i] = label THEN i
    ELSE IndexFrom(cols, label, i + 1)

\* list.index(label); 0 when absent.
ColPos(cols, label) == IndexFrom(cols, label, 1)

\* row[label]
CellAt(cols, row, label) == row[ColPos(cols, label)]

\* row.get(label, "")
GetCell(cols, row, label) ==
    IF ColPos(cols, label) = 0 THEN EmptyCell ELSE row[ColPos(cols, label)]

\* df[label] = values : overwrite the column when present, append it otherwise.
SetColumn(t, label, values) ==
    IF ColPos(t.cols, label) # 0
    THEN [cols |-> t.cols,
          rows |-> [r \in 1..Len(t.rows) |->
                      [t.rows[r] EXCEPT ![ColPos(t.cols, label)] = values[r]]]]
    ELSE [cols |-> Append(t.cols, label),
          rows |-> [r \in 1..Len(t.rows) |-> Append(t.rows[r], values[r])]]

\* --------------------------------------------------------- schema resolver
RECURSIVE FindFrom(_, _, _)
FindFrom(df_cols, target, i) ==
    IF i > Len(df_cols) THEN None
    ELSE IF Lower(Strip(df_cols[i])) = Lower(Strip(target)) THEN df_cols[i]
    ELSE FindFrom(df_cols, target, i + 1)

\* Faulty variant: the comparison without strip().
RECURSIVE FindFromUnstripped(_, _, _)
FindFromUnstripped(df_cols, target, i) ==
    IF i > Len(df_cols) THEN None
    ELSE IF Lower(df_cols[i]) = Lower(target) THEN df_cols[i]
    ELSE FindFromUnstripped(df_cols, target, i + 1)

find_header_unstripped(df_cols, target) == FindFromUnstripped(df_cols, target, 1)

find_header_case_insensitive(df_cols, target) == FindFrom(df_cols, target, 1)

build_faculty_list(t, cgpa_col_name) ==
    SubSeq(t.cols, ColPos(t.cols, cgpa_col_name) + 1, Len(t.cols))

\* -------------------------------------------------------- preference tally
ZeroCounts(faculty_cols_) ==
    [i \in 1..Len(faculty_cols_) |->
        [Fac |-> faculty_cols_[i],
         Count |-> [p \in 1..Len(faculty_cols_) |-> 0]]]

\* One pass of the inner loop body (lines 57-63) for row r and faculty j.
CountCell(t, faculty_cols_, pref_df, r, j) ==
    LET n == Len(faculty_cols_)
        x == PyInt(CellAt(t.cols, t.rows[r], faculty_cols_[j]))
    IN IF x.ok /\ 1 <= x.val /\ x.val <= n
       THEN [pref_df EXCEPT ![j].Count[x.val] = @ + 1]
       ELSE pref_df

\* The two nested loops (lines 55-63), idx numbering the (row, faculty) pairs.
RECURSIVE CountFrom(_, _, _, _)
CountFrom(t, faculty_cols_, pref_df, idx) ==
    LET n == Len(faculty_cols_)
    IN IF n = 0 \/ idx >= Len(t.rows) * n THEN pref_df
       ELSE CountFrom(t, faculty_cols_,
                      CountCell(t, faculty_cols_, pref_df,
                                (idx \div n) + 1, (idx % n) + 1),
                      idx + 1)

compute_fac_pref_counts(t, faculty_cols_) ==
    CountFrom(t, faculty_cols_, ZeroCounts(faculty_cols_), 0)

\* ------------------------------------------------------------------- sort
\* sort_values(by=[cgpa, _orig_index], ascending=[False, True]): a missing
\* merit goes last (na_position='last'), ties fall back on _orig_index.
\* Faulty variant: ascending merit.
SortsBeforeAscending(cols, cg, a, b) ==
    LET ma == CellAt(cols, a, cg)
        mb == CellAt(cols, b, cg)
        ia == CellAt(cols, a, H_orig_index).v
        ib == CellAt(cols, b, H_orig_index).v
    IN IF ma.kind = "num" /\ mb.kind = "num"
       THEN ma.v < mb.v \/ (ma.v = mb.v /\ ia <= ib)
       ELSE IF ma.kind = "num" THEN TRUE
       ELSE IF mb.kind = "num" THEN FALSE
       ELSE ia <= ib

SortsBefore(cols, cg, a, b) ==
    LET ma == CellAt(cols, a, cg)
        mb == CellAt(cols, b, cg)
        ia == CellAt(cols, a, H_orig_index).v
        ib == CellAt(cols, b, H_orig_index).v
    IN IF ma.kind = "num" /\ mb.kind = "num"
       THEN ma.v > mb.v \/ (ma.v = mb.v /\ ia <= ib)
       ELSE IF ma.kind = "num" THEN TRUE
       ELSE IF mb.kind = "num" THEN FALSE
       ELSE ia <= ib

RECURSIVE Merge(_, _, _, _)
Merge(cols, cg, l, r) ==
    IF l = <<>> THEN r
    ELSE IF r = <<>> THEN l
    ELSE IF SortsBefore(cols, cg, Head(l), Head(r))
         THEN <<Head(l)>> \o Merge(cols, cg, Tail(l), r)
         ELSE <<Head(r)>> \o Merge(cols, cg, l, Tail(r))

RECURSIVE MergeSort(_, _, _)
MergeSort(cols, cg, s) ==
    IF Len(s) <= 1 THEN s
    ELSE LET mid == Len(s) \div 2
         IN Merge(cols, cg,
                  MergeSort(cols, cg, SubSeq(s, 1, mid)),
                  MergeSort(cols, cg, SubSeq(s, mid + 1, Len(s))))

sort_values(t, cg) == [cols |-> t.cols, rows |-> MergeSort(t.cols, cg, t.rows)]

\* Lines 142-144: the merit column coerced in place, _orig_index added in place.
Coerced(t, cg) ==
    SetColumn(t, cg, [r \in 1..Len(t.rows) |-> ToNumeric(CellAt(t.cols, t.rows[r], cg))])

WithOrigIndex(t) ==
    SetColumn(t, H_orig_index, [r \in 1..Len(t.rows) |-> Whole(r - 1)])

\* ------------------------------------------------------------- allocation
\* Lines 93-101: the first faculty from position j on that the student ranks
\* pref_rank and that is still available.
RECURSIVE ScanFaculties(_, _, _, _, _, _)
ScanFaculties(cols, student, faculty_cols_, avail, pref_rank, j) ==
    IF j > Len(faculty_cols_) THEN None
    ELSE LET x == PyInt(CellAt(cols, student, faculty_cols_[j]))
         IN IF x.ok /\ x.val = pref_rank /\ faculty_cols_[j] \in avail
            THEN faculty_cols_[j]
            ELSE ScanFaculties(cols, student, faculty_cols_, avail, pref_rank, j + 1)

\* Lines 89-103: ranks 1..n in increasing order.
RECURSIVE ScanRanks(_, _, _, _, _)
ScanRanks(cols, student, faculty_cols_, avail, pref_rank) ==
    IF pref_rank > Len(faculty_cols_) THEN None
    ELSE LET a == ScanFaculties(cols, student, faculty_cols_, avail, pref_rank, 1)
         IN IF a # None THEN a
            ELSE ScanRanks(cols, student, faculty_cols_, avail, pref_rank + 1)

\* Lines 108-111: the first faculty, in column order, that is available.
RECURSIVE FirstAvailable(_, _, _)
FirstAvailable(faculty_cols_, avail, j) ==
    IF j > Len(faculty_cols_) THEN None
    ELSE IF faculty_cols_[j] \in avail THEN faculty_cols_[j]
    ELSE FirstAvailable(faculty_cols_, avail, j + 1)

\* Faulty variant: no fallback to the first available faculty.
AssignedNoFallback(cols, student, faculty_cols_, avail) ==
    ScanRanks(cols, student, faculty_cols_, avail, 1)

\* Lines 87-115: the faculty assigned to one student (None when none is left).
Assigned(cols, student, faculty_cols_, avail) ==
    LET a == ScanRanks(cols, student, faculty_cols_, avail, 1)
    IN IF a # None THEN a
       ELSE IF Cardinality(avail) > 0 THEN FirstAvailable(faculty_cols_, avail, 1)
       ELSE None

\* Faulty variant: the assigned faculty stays available.
RemainingKeep(avail, a) == avail

\* Lines 118-119.
Remaining(avail, a) == IF a \in avail THEN avail \ {a} ELSE avail

\* Lines 120-126.
OutputRow(cols, student, a) ==
    [Roll |-> GetCell(cols, student, find_header_case_insensitive(cols, H_Roll)),
     Name |-> GetCell(cols, student, find_header_case_insensitive(cols, H_Name)),
     Email |-> GetCell(cols, student, find_header_case_insensitive(cols, H_Email)),
     CGPA |-> GetCell(cols, student, find_header_case_insensitive(cols, H_CGPA)),
     Allocated |-> IF a # None THEN a ELSE Empty]

\* Faulty variant: a chunk shorter than n is dropped.
ChunkLenFullOnly(total, n, start_) == IF total - start_ < n THEN 0 ELSE n

\* Line 84: the length of df_sorted.iloc[start:start+n].
ChunkLen(total, n, start_) == IF total - start_ < n THEN total - start_ ELSE n

SetOf(s) == {s[i] : i \in 1..Len(s)}

\* ----------------------------------------------------------------- inputs
\* An uploaded table: a Roll column, one column headed x (the merit column
\* when x spells CGPA), then k faculty columns F1..Fk.
Cols(x, k) == <<H_Roll, x>> \o [i \in 1..k |-> Fac(i)]

\* Row i: its roll number, its merit cell, its k preference cells.
Rows(m, mp) == [i \in 1..m |-> <<Whole(i), mp[i][1]>> \o mp[i][2]]

NoResult == [returned |-> FALSE, alloc |-> <<>>, pref |-> <<>>]

MeritValues == {Whole(i) : i \in 1..MaxMerit}

\* Preference cells 1, 1.5, 2, ... MaxFac and the missing cell.
RankCells == {NaN} \cup {Num(h) : h \in 2..(2 * MaxFac)}

\* The preference cells of one row over k faculty columns: any cells, or the
\* same cell in every column.
AnyPrefs == [k \in 0..MaxFac |-> [1..k -> RankCells]]
SamePrefs(cells) == [k \in 0..MaxFac |-> {[j \in 1..k |-> c] : c \in cells}]
MessyPrefs == SamePrefs({NaN, Text, Whole(1)})
RankedPrefs == SamePrefs({Whole(1)})

InitWith(headers, merits, prefs) ==
    /\ \E k \in 0..MaxFac, m \in 0..MaxStudents, x \in headers :
          \E mp \in [1..m -> merits \X prefs[k]] :
             uploaded = [cols |-> Cols(x, k), rows |-> Rows(m, mp)]
    /\ df = uploaded
    /\ calls = 1
    /\ direct = FALSE
    /\ pc = "idle"
    /\ cgpa_col = None
    /\ faculty_cols = <<>>
    /\ df_sorted = NoTable
    /\ pref_counts = <<>>
    /\ allocated_rows = <<>>
    /\ start = 0
    /\ pos = 0
    /\ available = {}
    /\ result = NoResult
    /\ first = NoResult

Init == InitWith({H_CGPA, H_GPA}, MeritValues, AnyPrefs)

\* ------------------------------------------------------- process_dataframe
\* Lines 133-135: no header spells CGPA.
RaiseNoCgpa ==
    /\ pc = "idle"
    /\ find_header_case_insensitive(df.cols, H_CGPA) = None
    /\ pc' = "error"
    /\ UNCHANGED <<uploaded, df, calls, direct, cgpa_col, faculty_cols, df_sorted,
                   pref_counts, allocated_rows, start, pos, available, result, first>>

\* Lines 137-139: no column after the merit column.
RaiseNoFaculty ==
    /\ pc = "idle"
    /\ find_header_case_insensitive(df.cols, H_CGPA) # None
    /\ cgpa_col' = find_header_case_insensitive(df.cols, H_CGPA)
    /\ faculty_cols' = build_faculty_list(df, cgpa_col')
    /\ Len(faculty_cols') = 0
    /\ pc' = "error"
    /\ UNCHANGED <<uploaded, df, calls, direct, df_sorted, pref_counts,
                   allocated_rows, start, pos, available, result, first>>

\* Lines 133-147: columns resolved, merit coerced, _orig_index added, sorted.
Prepare ==
    /\ pc = "idle"
    /\ find_header_case_insensitive(df.cols, H_CGPA) # None
    /\ cgpa_col' = find_header_case_insensitive(df.cols, H_CGPA)
    /\ faculty_cols' = build_faculty_list(df, cgpa_col')
    /\ Len(faculty_cols') # 0
    /\ df' = WithOrigIndex(Coerced(df, cgpa_col'))
    /\ df_sorted' = sort_values(df', cgpa_col')
    /\ pc' = "tally"
    /\ UNCHANGED <<uploaded, calls, direct, pref_counts, allocated_rows, start,
                   pos, available, result, first>>

\* Line 150.
Tally ==
    /\ pc = "tally"
    /\ pref_counts' = compute_fac_pref_counts(df, faculty_cols)
    /\ pc' = "alloc"
    /\ UNCHANGED <<uploaded, df, calls, direct, cgpa_col, faculty_cols, df_sorted,
                   allocated_rows, start, pos, available, result, first>>

\* --------------------------------------------------------- allocate_rounds
\* Lines 75-78: an empty faculty list raises before any row is produced.
AllocRaiseEmpty ==
    /\ pc = "alloc"
    /\ Len(faculty_cols) = 0
    /\ pc' = "error"
    /\ UNCHANGED <<uploaded, df, calls, direct, cgpa_col, faculty_cols, df_sorted,
                   pref_counts, allocated_rows, start, pos, available, result, first>>

\* Lines 75-83.
AllocEnter ==
    /\ pc = "alloc"
    /\ Len(faculty_cols) # 0
    /\ allocated_rows' = <<>>
    /\ start' = 0
    /\ pc' = "round"
    /\ UNCHANGED <<uploaded, df, calls, direct, cgpa_col, faculty_cols, df_sorted,
                   pref_counts, pos, available, result, first>>

\* Lines 83-85: the next chunk, with every faculty available again.
RoundStart ==
    /\ pc = "round"
    /\ start < Len(df_sorted.rows)
    /\ available' = SetOf(faculty_cols)
    /\ pos' = 0
    /\ pc' = "student"
    /\ UNCHANGED <<uploaded, df, calls, direct, cgpa_col, faculty_cols, df_sorted,
                   pref_counts, allocated_rows, start, result, first>>

\* Lines 86-126: one student of the chunk.
AllocStudent ==
    /\ pc = "student"
    /\ pos < ChunkLen(Len(df_sorted.rows), Len(faculty_cols), start)
    /\ LET student == df_sorted.rows[start + pos + 1]
           a == Assigned(df_sorted.cols, student, faculty_cols, available)
       IN /\ available' = Remaining(available, a)
          /\ allocated_rows' = Append(allocated_rows, OutputRow(df_sorted.cols, student, a))
    /\ pos' = pos + 1
    /\ UNCHANGED <<uploaded, df, calls, direct, pc, cgpa_col, faculty_cols,
                   df_sorted, pref_counts, start, result, first>>

\* Line 83: the chunk is exhausted, the range moves on by n.
RoundEnd ==
    /\ pc = "student"
    /\ pos >= ChunkLen(Len(df_sorted.rows), Len(faculty_cols), start)
    /\ start' = start + Len(faculty_cols)
    /\ pc' = "round"
    /\ UNCHANGED <<uploaded, df, calls, direct, cgpa_col, faculty_cols, df_sorted,
                   pref_counts, allocated_rows, pos, available, result, first>>

\* Lines 127-128 and 156: the tables are returned to the caller.
Return ==
    /\ pc = "round"
    /\ start >= Len(df_sorted.rows)
    /\ result' = [returned |-> TRUE, alloc |-> allocated_rows, pref |-> pref_counts]
    /\ pc' = "returned"
    /\ UNCHANGED <<uploaded, df, calls, direct, cgpa_col, faculty_cols, df_sorted,
                   pref_counts, allocated_rows, start, pos, available, first>>

\* ------------------------------------------------------------------ caller
\* The caller keeps the tables of the first call and calls process_dataframe
\* again on the same DataFrame object.
Rerun ==
    /\ pc = "returned"
    /\ calls = 1
    /\ ~direct
    /\ first' = result
    /\ calls' = 2
    /\ pc' = "idle"
    /\ cgpa_col' = None
    /\ faculty_cols' = <<>>
    /\ df_sorted' = NoTable
    /\ pref_counts' = <<>>
    /\ allocated_rows' = <<>>
    /\ start' = 0
    /\ pos' = 0
    /\ available' = {}
    /\ result' = NoResult
    /\ UNCHANGED <<uploaded, df, direct>>

\* allocate_rounds called on its own, with a table in the caller's order and a
\* faculty list that is a (possibly empty) tail of the table's columns.
DirectAllocateRounds ==
    /\ pc = "idle"
    /\ calls = 1
    /\ \E i \in 3..(Len(df.cols) + 1) :
          faculty_cols' = SubSeq(df.cols, i, Len(df.cols))
    /\ df_sorted' = df
    /\ direct' = TRUE
    /\ pc' = "alloc"
    /\ UNCHANGED <<uploaded, df, calls, cgpa_col, pref_counts, allocated_rows,
                   start, pos, available, result, first>>

Next ==
    \/ RaiseNoCgpa
    \/ RaiseNoFaculty
    \/ Prepare
    \/ Tally
    \/ AllocRaiseEmpty
    \/ AllocEnter
    \/ RoundStart
    \/ AllocStudent
    \/ RoundEnd
    \/ Return
    \/ Rerun
    \/ DirectAllocateRounds

Spec == Init /\ [][Next]_vars

\* Tables whose merit header varies (spelt, padded, absent), whose merit cells
\* are textual or numeric and whose rows are missing, textual or ranked 1.
SchemaHeaders == {H_CGPA, H_cgpa_padded, H_Cgpa, H_GPA, H_C_GPA, H_Name}

InitSchema == InitWith(SchemaHeaders, {Text, Whole(1)}, MessyPrefs)

SpecSchema == InitSchema /\ [][Next]_vars

\* Tables whose merit cells are numeric, missing or textual.
InitSort == InitWith({H_CGPA, H_GPA}, MeritValues \cup {NaN, Text}, RankedPrefs)

SpecSort == InitSort /\ [][Next]_vars

\* ------------------------------------------------------------- properties
n == Len(faculty_cols)
total == Len(df_sorted.rows)
Allocating == pc \in {"round", "student", "returned"}
Processing == pc = "student" /\ pos < ChunkLen(total, n, start)
CurStudent == df_sorted.rows[start + pos + 1]
RoundOf(i) == (i - 1) \div n

\* A cell that holds an integer rank in 1..n.
ValidRank(c) == c.kind = "num" /\ c.v % 2 = 0 /\ 1 <= c.v \div 2 /\ c.v \div 2 <= n
RankOf(student, f) == CellAt(df_sorted.cols, student, f)
AllPrefsMissing(student) ==
    \A j \in 1..n : RankOf(student, faculty_cols[j]).kind # "num"

\* C1: within every round (the rows of one chunk of n), the last one included,
\* no faculty is assigned to two different students.
C1_NoFacultyTwiceInRound ==
    Allocating =>
        \A i, j \in 1..Len(allocated_rows) :
            (i < j /\ RoundOf(i) = RoundOf(j) /\ allocated_rows[i].Allocated # Empty) =>
                allocated_rows[i].Allocated # allocated_rows[j].Allocated

\* C1 witness: a finished run of process_dataframe whose first round held two
\* students who both ranked F1 first.
C1_Witness ==
    /\ pc = "returned" /\ ~direct /\ calls = 1 /\ n = 2
    /\ Len(allocated_rows) = 3
    /\ RankOf(df_sorted.rows[1], Fac(1)) = Whole(1)
    /\ RankOf(df_sorted.rows[2], Fac(1)) = Whole(1)

\* C2: the allocation output has as many rows as the input table and every
\* input student (roll number) is in exactly one output row.
C2_OneRowPerStudent ==
    (pc = "returned" /\ n >= 1) =>
        /\ Len(result.alloc) = Len(uploaded.rows)
        /\ \A r \in 1..Len(uploaded.rows) :
              Cardinality({i \in 1..Len(result.alloc) :
                              result.alloc[i].Roll = uploaded.rows[r][1]}) = 1

\* C2 witness: three students, two faculties (a short last round), the tables
\* returned by process_dataframe, one student without any readable preference.
C2_Witness ==
    /\ pc = "returned" /\ ~direct /\ n = 2
    /\ Len(uploaded.rows) = 3
    /\ \E r \in 1..3 : uploaded.rows[r][3] = NaN /\ uploaded.rows[r][4] = NaN

\* C3: when the k-th student of a round is processed exactly n - k faculties
\* are available, the student is assigned one of them, and no output row has
\* an empty assignment.
C3_AlwaysAssigned ==
    /\ Processing =>
          /\ Cardinality(available) = n - pos
          /\ available # {}
          /\ Assigned(df_sorted.cols, CurStudent, faculty_cols, available) \in available
    /\ Allocating =>
          \A i \in 1..Len(allocated_rows) : allocated_rows[i].Allocated # Empty

\* C3 witness: the second student of a round, all of whose preference cells are
\* missing, about to be processed after the first took a faculty.
C3_Witness ==
    /\ Processing /\ pos = 1 /\ n = 2
    /\ AllPrefsMissing(CurStudent)
    /\ Cardinality(available) = 1

\* The positions of the uploaded headers that spell CGPA; the schema is bad
\* when there is none or when the first of them is the last column.
MeritMatches ==
    {i \in 1..Len(uploaded.cols) :
        Lower(Strip(uploaded.cols[i])) = <<"c", "g", "p", "a">>}
BadSchema ==
    \/ MeritMatches = {}
    \/ \E i \in MeritMatches :
          (\A j \in MeritMatches : i <= j) /\ i = Len(uploaded.cols)

\* The merit cell of input row r.
InputMerit(r) == uploaded.rows[r][2]
OrigOf(i) == CellAt(df_sorted.cols, df_sorted.rows[i], H_orig_index).v \div 2 + 1

\* Input row a comes before input row b: higher numeric merit first, equal
\* merit in input order, non-numeric merit after every numeric one.
C4_Before(a, b) ==
    LET ma == InputMerit(a)
        mb == InputMerit(b)
    IN \/ ma.kind = "num" /\ mb.kind = "num" /\ ma.v > mb.v
       \/ ma.kind = "num" /\ mb.kind = "num" /\ ma.v = mb.v /\ a < b
       \/ ma.kind = "num" /\ mb.kind # "num"
       \/ ma.kind # "num" /\ mb.kind # "num" /\ a < b

\* C4: process_dataframe hands the students to the allocation, and the
\* allocation writes its rows, in the order merit descending, ties in input
\* order, non-numeric merit last in input order; a non-numeric merit is no error.
C4_MeritOrder ==
    /\ (~direct /\ pc \in {"tally", "alloc", "round", "student", "returned"}) =>
          /\ total = Len(uploaded.rows)
          /\ {OrigOf(i) : i \in 1..total} = 1..total
          /\ \A i, j \in 1..total : i < j => C4_Before(OrigOf(i), OrigOf(j))
          /\ \A i \in 1..Len(allocated_rows) :
                allocated_rows[i].Roll = uploaded.rows[OrigOf(i)][1]
    /\ (~direct /\ pc = "error") => BadSchema

\* C4 witness: returned tables for an input whose first student has a textual
\* merit and whose next two students tie.
C4_Witness ==
    /\ pc = "returned" /\ ~direct /\ calls = 1
    /\ Len(uploaded.rows) = 3
    /\ InputMerit(1) = Text
    /\ InputMerit(2) = Whole(1) /\ InputMerit(3) = Whole(1)
    /\ Len(result.alloc) = 3

\* C5: the second run of process_dataframe on the same table returns the same
\* two tables as the first.
C5_SecondRunSame ==
    (pc = "returned" /\ calls = 2) => result = first

\* C6: the count reported for (f, p) is the number of students whose cell for
\* f holds the integer p.
C6_CountsIntegerCells ==
    (~direct /\ calls = 1 /\ pc \in {"alloc", "round", "student", "returned"}) =>
        \A j \in 1..n : \A p \in 1..n :
            pref_counts[j].Count[p] =
                Cardinality({r \in 1..Len(uploaded.rows) :
                                CellAt(uploaded.cols, uploaded.rows[r], faculty_cols[j])
                                    = Whole(p)})

\* C7: without a CGPA header, or without a column after it, process_dataframe
\* ends in an error and returns no table; allocate_rounds with an empty faculty
\* list fails before any row; nothing else (malformed cells, non-numeric merit)
\* ends in an error.
C7_SchemaErrorsOnly ==
    /\ (~direct /\ BadSchema) =>
          /\ pc \in {"idle", "error"}
          /\ result = NoResult /\ allocated_rows = <<>> /\ pref_counts = <<>>
    /\ (~direct /\ ~BadSchema) => pc # "error"
    /\ (direct /\ n = 0) =>
          pc \in {"alloc", "error"} /\ allocated_rows = <<>> /\ result = NoResult
    /\ (direct /\ n # 0) => pc # "error"

\* C7 witness: process_dataframe ended in an error on a table whose second
\* header is GPA and whose cells are textual.
C7_Witness ==
    /\ pc = "error" /\ ~direct
    /\ uploaded.cols[2] = H_GPA
    /\ Len(uploaded.cols) = 4
    /\ Len(uploaded.rows) = 2
    /\ uploaded.rows[1][3] = Text

\* The faculties still available that the student being processed ranks validly.
ValidAvailable == {f \in available : ValidRank(RankOf(CurStudent, f))}
LastAllocated == allocated_rows'[Len(allocated_rows')].Allocated

\* C8: in a run of process_dataframe, a student with a validly ranked available faculty is assigned the
\* available faculty of smallest valid rank.
C8_Step ==
    (~direct /\ Processing /\ ValidAvailable # {}) =>
        /\ LastAllocated \in ValidAvailable
        /\ \A f \in ValidAvailable :
              RankOf(CurStudent, f).v >= RankOf(CurStudent, LastAllocated).v
C8_SmallestValidRank == [][C8_Step]_vars

\* C9: in a run of process_dataframe, a student without any validly ranked available faculty is assigned the
\* first available faculty in column order.
C9_Step ==
    (~direct /\ Processing /\ ValidAvailable = {}) =>
        LastAllocated = FirstAvailable(faculty_cols, available, 1)
C9_FallbackFirstAvailable == [][C9_Step]_vars

\* C10: in one round of a run of process_dataframe, when a later student t holds faculty f and an earlier
\* student s ranked f validly with r, s holds a faculty it ranked validly with
\* at most r.
C10_MeritPriority ==
    (~direct /\ Allocating) =>
        \A i, j \in 1..Len(allocated_rows) :
            (/\ i < j
             /\ RoundOf(i) = RoundOf(j)
             /\ allocated_rows[j].Allocated # Empty
             /\ ValidRank(RankOf(df_sorted.rows[i], allocated_rows[j].Allocated))) =>
                /\ allocated_rows[i].Allocated # Empty
                /\ ValidRank(RankOf(df_sorted.rows[i], allocated_rows[i].Allocated))
                /\ RankOf(df_sorted.rows[i], allocated_rows[i].Allocated).v
                      <= RankOf(df_sorted.rows[i], allocated_rows[j].Allocated).v

====
